---- MODULE Spec2Model ----
(***************************************************************************)
(* purejxr: the .jxr container reader (jxrfile.py), the JPEG XR codestream *)
(* image header reader (codestream.py) and the integer readers they share  *)
(* (_iotools.py), as state machines over a byte stream.                    *)
(*                                                                         *)
(* A stream is a sequence of bytes (0..255) and a 0-based cursor `pos`.    *)
(* stream.read(n) returns the bytes that exist in [pos, pos+n) and moves   *)
(* the cursor by the number of bytes returned: at or past the end it       *)
(* returns b"" and does not raise.  int.from_bytes(b"") is 0.              *)
(***************************************************************************)
EXTENDS Integers, Sequences, FiniteSets, TLC

VARIABLES
    stream,        \* the bytes of the caller's stream
    pos,           \* stream cursor (stream.tell())
    pc,            \* position of the running reader
    err,           \* the exception raised, "none" while none
    header,        \* JXRHeader returned by read_header
    ifds,          \* image_file_directories of read()
    entry_count,   \* entry_count of the directory being read
    entries,       \* entries dict of the directory being read (tag -> entry)
    i,             \* loop counter of the running for-loop
    seeks,         \* history: the targets of every stream.seek, in order
    highWater,     \* history: one past the largest stream position a read returned a byte of
    short,         \* history: some read returned fewer bytes than requested
    dirSpans,      \* history: cursor at the start / next-offset field / end of each directory returned
    dirStart,      \* history: cursor when the directory being read was started
    lastEntry,     \* history: the last call of read_image_file_directory_entry
    image_header,  \* CodestreamImageHeader under construction
    marks          \* history: cursor before / after the tile arrays of read_image_header

vars == <<stream, pos, pc, err, header, ifds, entry_count, entries, i, seeks,
          highWater, short, dirSpans, dirStart, lastEntry, image_header, marks>>

jxrVars == <<header, ifds, entry_count, entries, seeks, dirSpans, dirStart, lastEntry>>

(***************************************************************************)
(* Bounds of the explored inputs                                           *)
(***************************************************************************)
MaxDirs == 3       \* directories laid out in a container
MaxExtra == 2      \* entries of a directory besides the required ones
MaxCut == 6        \* bytes cut off the end of a container
MaxVersion == 2    \* largest version byte of a container
MaxTileRaw == 2    \* largest stored tile count of a codestream header
MaxCutCS == 3      \* bytes cut off the end of a codestream header

(***************************************************************************)
(* _iotools.py                                                             *)
(***************************************************************************)
Min(a, b) == IF a < b THEN a ELSE b

\* stream.read(n) at cursor p: the bytes that exist in [p, p+n)
StreamRead(s, p, n) ==
    IF p >= Len(s) \/ n <= 0 THEN <<>> ELSE SubSeq(s, p + 1, Min(p + n, Len(s)))

Max(a, b) == IF a > b THEN a ELSE b

\* one past the last position stream.read(n) at cursor p returns a byte of (0 if none)
ReadEnd(s, p, n) == IF StreamRead(s, p, n) = <<>> THEN 0 ELSE Min(p + n, Len(s))

\* int.from_bytes(data, "little", signed=False)
\* stream.tell() after stream.read(n) at cursor p; reads made one after
\* another add up: Tell(s, Tell(s, p, a), b) = Tell(s, p, a + b)
Tell(s, p, n) == IF p >= Len(s) THEN p ELSE Min(p + n, Len(s))

RECURSIVE from_bytes(_)
from_bytes(data) ==
    IF data = <<>> THEN 0 ELSE data[1] + 256 * from_bytes(Tail(data))

\* read_uintN: value, cursor after the read, and whether the read was short
read_uint(s, p, n) ==
    LET data == StreamRead(s, p, n)
    IN  [val |-> from_bytes(data), pos |-> p + Len(data), short |-> Len(data) < n]

read_uint8(s, p) == read_uint(s, p, 1)
read_uint16(s, p) == read_uint(s, p, 2)
read_uint12(s, p) == read_uint(s, p, 3)
read_uint32(s, p) == read_uint(s, p, 4)

(***************************************************************************)
(* jxrfile.py: constants and enums                                         *)
(***************************************************************************)
READER_MAX_SUPPORTED_FILE_VERSION_off == 1 + 1
READER_MAX_SUPPORTED_FILE_VERSION == 1
JXR_SIGNATURE == <<73, 73, 188>>

RESERVED == -1
DOCUMENT_NAME == 269
PIXEL_FORMAT == 48129
IMAGE_WIDTH == 48256
IMAGE_HEIGHT == 48257
IMAGE_OFFSET == 48320
IMAGE_BYTE_COUNT == 48321

\* the values of JXRFieldTag a 2-byte code can equal
JXRFieldTag ==
    {DOCUMENT_NAME, 270, 271, 272, 285, 297, 305, 306, 315, 316, 33432, 40961,
     PIXEL_FORMAT, 48130, 48132, 48133, 48134, IMAGE_WIDTH, IMAGE_HEIGHT, 48258,
     3011, IMAGE_OFFSET, IMAGE_BYTE_COUNT, 48322, 48323, 48324, 48325, 59932}

\* the values of JXRElementType a 2-byte code can equal
JXRElementType == 1 .. 12

\* JXRElementType.get_data_size
get_data_size(element_type) ==
    CASE element_type = RESERVED -> 0
      [] element_type \in {1, 2, 6, 7} -> 1
      [] element_type \in {3, 8} -> 2
      [] element_type \in {4, 9, 11} -> 4
      [] element_type \in {5, 10, 12} -> 8

\* the required_tag list of read_image_file_directory
RequiredTags == {PIXEL_FORMAT, IMAGE_WIDTH, IMAGE_HEIGHT, IMAGE_OFFSET, IMAGE_BYTE_COUNT}

(***************************************************************************)
(* jxrfile.py: readers                                                     *)
(***************************************************************************)
\* `if elements_size > 4`
IsIndirect(elements_size) == elements_size > 4

\* read_image_file_directory_entry at cursor p: the entry, the cursor after
\* the call, the seeks issued, the positions read, whether a read was short.
\* The tag, the type, the count and the 4-byte field are read one after
\* another, so each is read at Tell of the bytes asked for before it; after
\* an indirect payload the cursor is put back to stream_position, the
\* cursor after the offset field.
read_image_file_directory_entry(s, p) ==
    LET tagR == read_uint16(s, p)
        tag == IF tagR.val \in JXRFieldTag THEN tagR.val ELSE RESERVED
        typR == read_uint16(s, Tell(s, p, 2))
        element_type == IF typR.val \in JXRElementType THEN typR.val ELSE RESERVED
        cntR == read_uint32(s, Tell(s, p, 4))
        elements_size == get_data_size(element_type) * cntR.val
        offR == read_uint32(s, Tell(s, p, 8))
        far == StreamRead(s, offR.val, elements_size)
        near == StreamRead(s, Tell(s, p, 8), 4)
        fixedShort == tagR.short \/ typR.short \/ cntR.short
    IN  IF IsIndirect(elements_size)
        THEN [entry |-> [tag |-> tag, element_type |-> element_type,
                         element_count |-> cntR.val, data |-> far],
              tag_raw |-> tagR.val, start |-> p, size |-> elements_size,
              field |-> Tell(s, p, 8), pos |-> Tell(s, p, 12),
              seeks |-> <<offR.val, Tell(s, p, 12)>>,
              highWater |-> Max(ReadEnd(s, p, 12), ReadEnd(s, offR.val, elements_size)),
              short |-> fixedShort \/ offR.short \/ Len(far) < elements_size]
        ELSE [entry |-> [tag |-> tag, element_type |-> element_type,
                         element_count |-> cntR.val, data |-> near],
              tag_raw |-> tagR.val, start |-> p, size |-> elements_size,
              field |-> Tell(s, p, 8), pos |-> Tell(s, p, 12),
              seeks |-> <<>>,
              highWater |-> ReadEnd(s, p, 12),
              short |-> fixedShort \/ Len(near) < 4]

\* `if entry.tag in entries`
IsDuplicate_never(tag, es) == FALSE
IsDuplicate(tag, es) == tag \in DOMAIN es

\* `if required_tag not in entries` for some required tag
MissingRequired(es) == \E t \in RequiredTags : t \notin DOMAIN es

\* `while ifd.next_ifd_offset != 0`
LoopContinues_inv(ifd) == ifd.next_ifd_offset = 0
LoopContinues(ifd) == ifd.next_ifd_offset # 0

\* the cursor at which read() starts the next directory: the current one,
\* no seek to ifd.next_ifd_offset is issued
NextDirectoryPosition_linked(p, ifd) == ifd.next_ifd_offset
NextDirectoryPosition(p, ifd) == p

NoEntry ==
    [entry |-> [tag |-> RESERVED, element_type |-> RESERVED, element_count |-> 0,
                data |-> <<>>],
     tag_raw |-> 0, start |-> -1, size |-> 0, field |-> -1, pos |-> -1,
     seeks |-> <<>>, highWater |-> 0, short |-> FALSE]

NoEntries == [t \in {} |-> NoEntry.entry]

(***************************************************************************)
(* codestream.py                                                           *)
(***************************************************************************)
CODESTREAM_IMAGE_HEADER_SIGNATURE == <<87, 77, 80, 72, 79, 84, 79, 0>>

\* bit n (0-based, most significant bit of a byte first) of a byte buffer
BitAt(buf, n) == (buf[(n \div 8) + 1] \div (2 ^ (7 - (n % 8)))) % 2

\* bit_stream.read("uint:k") with the bit cursor at off
RECURSIVE Bits(_, _, _)
Bits(buf, off, k) ==
    IF k = 0 THEN 0 ELSE 2 * Bits(buf, off, k - 1) + BitAt(buf, off + k - 1)

\* bit_stream.read("bool") with the bit cursor at off
Bool(buf, off) == BitAt(buf, off) = 1

\* CodestreamOverlapMode: every 2-bit code is a member
OverlapMode(raw) == IF raw \in 0 .. 3 THEN raw ELSE 0
\* CodestreamOutputColourFormat: RESERVED (-1) for a code that is no member
ColourFormat(raw) == IF raw \in 0 .. 8 THEN raw ELSE RESERVED
\* CodestreamOutputBitdepth: RESERVED (-1) for a code that is no member
Bitdepth(raw) == IF raw \in {0, 1, 2, 3, 4, 6, 7, 8, 9, 10, 15} THEN raw ELSE RESERVED

\* An int that may exceed 2^31 - 1, as two limbs: its value is
\* hi * 65536 + lo with lo in 0 .. 65535 (Python ints have no width)
\* int.from_bytes(data, "little", signed=False) of up to 4 bytes
from_bytes_wide(data) ==
    [lo |-> from_bytes(SubSeq(data, 1, Min(2, Len(data)))),
     hi |-> from_bytes(SubSeq(data, 3, Len(data)))]

\* `+ 1` on such an int
PlusOne_wrap16(v) == [lo |-> (v.lo + 1) % 65536, hi |-> v.hi]
PlusOne(v) ==
    IF v.lo + 1 = 65536 THEN [lo |-> 0, hi |-> v.hi + 1] ELSE [lo |-> v.lo + 1, hi |-> v.hi]

\* the size of a width / height field: read_uint16 or read_uint32
DimensionSize(short_header) == IF short_header THEN 2 ELSE 4

\* the size of a tile width / height entry: read_uint8 or read_uint16
TileEntrySize(short_header) == IF short_header THEN 1 ELSE 2

\* read_uint12(stream) + 1
TileCount_raw(raw) == raw
TileCount(raw) == raw + 1

Zero == [lo |-> 0, hi |-> 0]

NoImageHeader ==
    [reserved_b |-> 0, hard_tiling |-> FALSE, reserved_c |-> 0, tiling |-> FALSE,
     frequency_mode_layout |-> FALSE, spatial_transform |-> 0,
     index_table_present |-> FALSE, overlap_mode |-> 0, short_header |-> FALSE,
     long_word |-> FALSE, windowing |-> FALSE, trim_flexbits |-> FALSE,
     reserved_d |-> 0, red_blue_not_swapped |-> FALSE, premultiplied_alpha |-> FALSE,
     alpha_image_plane |-> FALSE, output_colour_format |-> RESERVED,
     output_bitdepth |-> RESERVED, width |-> Zero, height |-> Zero,
     vertical_tile_count |-> 0, horizontal_tile_count |-> 0, tile_widths |-> <<>>,
     tile_heights |-> <<>>, top_margin |-> 0, left_margin |-> 0, bottom_margin |-> 0,
     right_margin |-> 0]

NoMarks == [afterDims |-> -1, afterCounts |-> -1, afterTiles |-> -1]

(***************************************************************************)
(* Containers explored: the byte layout the readers above decode           *)
(***************************************************************************)
\* n bytes, little-endian, of v
LE(v, n) == [k \in 1 .. n |-> (v \div (256 ^ (k - 1))) % 256]

RECURSIVE Concat(_)
Concat(seqs) == IF seqs = <<>> THEN <<>> ELSE Head(seqs) \o Concat(Tail(seqs))

\* an entry: tag code, element type code, element count, 4-byte field
EntryBytes(tag, style) ==
    LE(tag, 2) \o LE(style.type, 2) \o LE(style.count, 4) \o LE(style.field, 4)

\* a directory: entry count, the entries, next-directory offset
DirBytes(tags, style, next) ==
    LE(Len(tags), 2) \o Concat([k \in 1 .. Len(tags) |-> EntryBytes(tags[k], style)])
                     \o LE(next, 4)

\* a file header: signature, version, offset of the first directory
HeaderBytes(h) == h.sig \o <<h.version>> \o LE(h.ifd_offset, 4) \o [k \in 1 .. h.gap |-> 170]

\* (element type code, element count, 4-byte field) of the entries of a container:
\* 1 byte inline; 4 bytes inline; unrecognized type (size 0); 8 bytes at
\* offset 0; 8 bytes at offset 70
Styles ==
    {[type |-> 1, count |-> 1, field |-> 3],
     [type |-> 4, count |-> 1, field |-> 3],
     [type |-> 0, count |-> 9, field |-> 3],
     [type |-> 4, count |-> 2, field |-> 0],
     [type |-> 5, count |-> 1, field |-> 70]}

RequiredOrder == <<PIXEL_FORMAT, IMAGE_WIDTH, IMAGE_HEIGHT, IMAGE_OFFSET, IMAGE_BYTE_COUNT>>

\* RequiredOrder without its k-th tag (all of it for k = 0)
Without(k) == SubSeq(RequiredOrder, 1, k - 1) \o SubSeq(RequiredOrder, k + 1, 5)

\* tag codes of the additional entries: two unrecognized codes, a second
\* PIXEL_FORMAT, DOCUMENT_NAME
ExtraCodes == {1, 2, PIXEL_FORMAT, DOCUMENT_NAME}

\* the additional entries of a directory, in ascending order of tag code
ExtraSeqs ==
    UNION {{x \in [1 .. n -> ExtraCodes] : \A k \in 1 .. n - 1 : x[k] <= x[k + 1]}
              : n \in 0 .. MaxExtra}

\* tag codes of the last directory laid out
Shapes == {Without(k) : k \in 0 .. 5} \cup {RequiredOrder \o x : x \in ExtraSeqs}

\* next-directory offsets of the directories laid out: zero at one of them or nowhere
NextSeqs ==
    UNION {{[k \in 1 .. n |-> IF k = z THEN 0 ELSE 8] : z \in 0 .. n} : n \in 1 .. MaxDirs}

GoodHeader == [sig |-> JXR_SIGNATURE, version |-> 1, ifd_offset |-> 8, gap |-> 0]

HeaderKinds ==
    {[GoodHeader EXCEPT !.version = v] : v \in 0 .. MaxVersion}
        \cup {[GoodHeader EXCEPT !.sig = <<73, 73, 42>>],
              [GoodHeader EXCEPT !.ifd_offset = 12, !.gap = 4],
              [GoodHeader EXCEPT !.ifd_offset = 200]}

Container(h, shape, style, nexts, cut) ==
    LET n == Len(nexts)
        full == HeaderBytes(h) \o
                Concat([k \in 1 .. n |->
                    DirBytes(IF k = n THEN shape ELSE RequiredOrder, style, nexts[k])])
    IN  SubSeq(full, 1, Len(full) - cut)

\* the list of directories never grows past this: the containers explored lay
\* out at most MaxDirs directories
IfdCap == MaxDirs + 1

\* the containers explored: every shape, style and chain of directories
\* uncut; one directory of every shape and style, cut; the other headers
Containers ==
    {Container(GoodHeader, shape, style, nexts, 0) :
        shape \in Shapes, style \in Styles, nexts \in NextSeqs}
    \cup {Container(GoodHeader, shape, style, nexts, cut) :
        shape \in Shapes, style \in Styles, nexts \in {<<0>>, <<8>>}, cut \in 1 .. MaxCut}
    \cup {Container(h, RequiredOrder, [type |-> 1, count |-> 1, field |-> 3], nexts, cut) :
        h \in HeaderKinds, nexts \in {<<0>>, <<8>>}, cut \in 0 .. MaxCut}

Init ==
    /\ stream \in Containers
    /\ pos = 0
    /\ pc = "read_header"
    /\ err = "none"
    /\ header = [version |-> 0, ifd_offset |-> 0]
    /\ ifds = <<>>
    /\ entry_count = 0
    /\ entries = NoEntries
    /\ i = 0
    /\ seeks = <<>>
    /\ highWater = 0
    /\ short = FALSE
    /\ dirSpans = <<>>
    /\ dirStart = -1
    /\ lastEntry = NoEntry
    /\ image_header = NoImageHeader
    /\ marks = NoMarks

(***************************************************************************)
(* read(stream), jxrfile.py                                                *)
(***************************************************************************)
\* header = read_header(stream)
ReadHeader ==
    /\ pc = "read_header"
    /\ LET signature == StreamRead(stream, pos, 3)
           verR == read_uint8(stream, Tell(stream, pos, 3))
           offR == read_uint32(stream, Tell(stream, pos, 4))
       IN  IF signature # JXR_SIGNATURE
           THEN /\ err' = "JXRFileSignatureError"
                /\ pc' = "raised"
                /\ pos' = pos + Len(signature)
                /\ highWater' = Max(highWater, ReadEnd(stream, pos, 3))
                /\ short' = (short \/ Len(signature) < 3)
                /\ UNCHANGED header
           ELSE /\ header' = [version |-> verR.val, ifd_offset |-> offR.val]
                /\ pc' = "check_version"
                /\ pos' = offR.pos
                /\ highWater' = Max(highWater, ReadEnd(stream, pos, 8))
                /\ short' = (short \/ verR.short \/ offR.short)
                /\ UNCHANGED err
    /\ UNCHANGED <<stream, ifds, entry_count, entries, i, seeks, dirSpans, dirStart,
                   lastEntry, image_header, marks>>

\* the version check of read(), then stream.seek(header.ifd_offset)
CheckVersion ==
    /\ pc = "check_version"
    /\ IF header.version > READER_MAX_SUPPORTED_FILE_VERSION
       THEN /\ err' = "JXRReaderFileVersionError"
            /\ pc' = "raised"
            /\ UNCHANGED <<pos, seeks>>
       ELSE /\ seeks' = Append(seeks, header.ifd_offset)
            /\ pos' = header.ifd_offset
            /\ pc' = "dir_begin"
            /\ UNCHANGED err
    /\ UNCHANGED <<stream, header, ifds, entry_count, entries, i, highWater, short,
                   dirSpans, dirStart, lastEntry, image_header, marks>>

\* read_image_file_directory: entry_count = read_uint16(stream); entries = {}
BeginDirectory ==
    /\ pc = "dir_begin"
    /\ Len(ifds) < IfdCap
    /\ LET r == read_uint16(stream, pos)
       IN  /\ entry_count' = r.val
           /\ pos' = r.pos
           /\ highWater' = Max(highWater, ReadEnd(stream, pos, 2))
           /\ short' = (short \/ r.short)
    /\ entries' = NoEntries
    /\ i' = 0
    /\ dirStart' = pos
    /\ pc' = "dir_entries"
    /\ UNCHANGED <<stream, err, header, ifds, seeks, dirSpans, lastEntry,
                   image_header, marks>>

\* one turn of `for _ in range(entry_count)`
ReadEntry ==
    /\ pc = "dir_entries"
    /\ i < entry_count
    /\ \E r \in {read_image_file_directory_entry(stream, pos)} :
           /\ lastEntry' = r
           /\ pos' = r.pos
           /\ seeks' = seeks \o r.seeks
           /\ highWater' = Max(highWater, r.highWater)
           /\ short' = (short \/ r.short)
           /\ IF IsDuplicate(r.entry.tag, entries)
              THEN /\ err' = "JXRDuplicateIFDEntryError"
                   /\ pc' = "raised"
                   /\ UNCHANGED <<entries, i>>
              ELSE /\ entries' = [t \in DOMAIN entries \cup {r.entry.tag} |->
                                     IF t = r.entry.tag THEN r.entry ELSE entries[t]]
                   /\ i' = i + 1
                   /\ UNCHANGED <<err, pc>>
    /\ UNCHANGED <<stream, header, ifds, entry_count, dirSpans, dirStart,
                   image_header, marks>>

\* after the entries: the required tags, next_ifd_offset, the append and the
\* loop test of read()
FinishDirectory ==
    /\ pc = "dir_entries"
    /\ i = entry_count
    /\ IF MissingRequired(entries)
       THEN /\ err' = "JXRMissingRequiredIFDEntryError"
            /\ pc' = "raised"
            /\ UNCHANGED <<pos, ifds, highWater, short, dirSpans>>
       ELSE LET n == read_uint32(stream, pos)
                ifd == [entry_count |-> entry_count, entries |-> entries,
                        next_ifd_offset |-> n.val]
            IN  /\ ifds' = Append(ifds, ifd)
                /\ dirSpans' = Append(dirSpans,
                                   [start |-> dirStart, nfield |-> pos, end |-> n.pos])
                /\ highWater' = Max(highWater, ReadEnd(stream, pos, 4))
                /\ short' = (short \/ n.short)
                /\ IF LoopContinues(ifd)
                   THEN /\ pc' = "dir_begin"
                        /\ pos' = NextDirectoryPosition(n.pos, ifd)
                   ELSE /\ pc' = "returned"
                        /\ pos' = n.pos
                /\ UNCHANGED err
    /\ UNCHANGED <<stream, header, entry_count, entries, i, seeks, dirStart, lastEntry,
                   image_header, marks>>

Next == ReadHeader \/ CheckVersion \/ BeginDirectory \/ ReadEntry \/ FinishDirectory

Spec == Init /\ [][Next]_vars

\* read() is one synchronous call: it runs on until it returns or raises
FairSpec == Spec /\ WF_vars(Next)

(***************************************************************************)
(* Codestream headers explored: the byte layout read_image_header decodes  *)
(***************************************************************************)
B(b) == IF b THEN 1 ELSE 0

\* the 4-byte bit-packed block; `alt` picks the other fields: all zero with
\* colour format RGB and bit depth BD8, or reserved bits set with overlap
\* mode 3, colour format 15 and bit depth 5 (no members)
FlagBytes(tiling, short_header, windowing, alt) ==
    <<IF alt THEN 168 ELSE 0,
      128 * B(tiling) + (IF alt THEN 3 ELSE 0),
      128 * B(short_header) + 32 * B(windowing) + (IF alt THEN 8 ELSE 0),
      IF alt THEN 245 ELSE 113>>

\* a stored dimension of n bytes: its m low bytes 255, the others 0
DimBytes(n, m) == [k \in 1 .. n |-> IF k <= m THEN 255 ELSE 0]

\* the tile entries: the k-th holds 3 * k
TileBytes(count, n) == Concat([k \in 1 .. count |-> LE(3 * k, n)])

\* the margins 1, 2, 3, 4 as four 6-bit fields
MarginBytes == <<4, 32, 196>>

Codestream(sig, tiling, short_header, windowing, alt, wm, hm, vraw, hraw, cut) ==
    LET n == DimensionSize(short_header)
        t == TileEntrySize(short_header)
        full == sig \o FlagBytes(tiling, short_header, windowing, alt)
                    \o DimBytes(n, wm) \o DimBytes(n, hm)
                    \o (IF tiling
                        THEN LE(vraw, 3) \o LE(hraw, 3) \o TileBytes(vraw + 1, t)
                                         \o TileBytes(hraw + 1, t)
                        ELSE <<>>)
                    \o (IF windowing THEN MarginBytes ELSE <<>>)
                    \o <<238>>
    IN  SubSeq(full, 1, Len(full) - cut)

Codestreams ==
    {Codestream(CODESTREAM_IMAGE_HEADER_SIGNATURE, tiling, short_header, windowing, alt,
                wm, hm, vraw, hraw, cut) :
        tiling \in BOOLEAN, short_header \in BOOLEAN, windowing \in BOOLEAN,
        alt \in BOOLEAN, wm \in 0 .. 4, hm \in {0, 1, 4},
        vraw \in 0 .. MaxTileRaw, hraw \in 0 .. MaxTileRaw, cut \in 0 .. MaxCutCS}
    \cup {Codestream(<<87, 77, 80, 72, 79, 84, 79, 1>>, FALSE, TRUE, FALSE, FALSE,
                     0, 0, 0, 0, cut) : cut \in 0 .. MaxCutCS}
    \cup {SubSeq(CODESTREAM_IMAGE_HEADER_SIGNATURE \o FlagBytes(TRUE, TRUE, TRUE, TRUE),
                 1, 8 + k) : k \in 0 .. 3}

InitCS ==
    /\ stream \in Codestreams
    /\ pos = 0
    /\ pc = "cs_signature"
    /\ err = "none"
    /\ header = [version |-> 0, ifd_offset |-> 0]
    /\ ifds = <<>>
    /\ entry_count = 0
    /\ entries = NoEntries
    /\ i = 0
    /\ seeks = <<>>
    /\ highWater = 0
    /\ short = FALSE
    /\ dirSpans = <<>>
    /\ dirStart = -1
    /\ lastEntry = NoEntry
    /\ image_header = NoImageHeader
    /\ marks = NoMarks

(***************************************************************************)
(* read_image_header(stream), codestream.py                                *)
(***************************************************************************)
\* signature = stream.read(8) and its check
CSReadSignature ==
    /\ pc = "cs_signature"
    /\ LET signature == StreamRead(stream, pos, 8)
       IN  /\ pos' = pos + Len(signature)
           /\ short' = (short \/ Len(signature) < 8)
           /\ highWater' = Max(highWater, ReadEnd(stream, pos, 8))
           /\ IF signature # CODESTREAM_IMAGE_HEADER_SIGNATURE
              THEN err' = "CodestreamSignatureError" /\ pc' = "raised"
              ELSE pc' = "cs_flags" /\ UNCHANGED err
    /\ UNCHANGED <<stream, i, image_header, marks>>
    /\ UNCHANGED jxrVars

\* bit_stream = ConstBitStream(stream.read(4)) and the 18 bit fields; a
\* field past the end of the buffer raises bitstring's ReadError
CSReadFlags ==
    /\ pc = "cs_flags"
    /\ LET buf == StreamRead(stream, pos, 4)
       IN  /\ pos' = pos + Len(buf)
           /\ short' = (short \/ Len(buf) < 4)
           /\ highWater' = Max(highWater, ReadEnd(stream, pos, 4))
           /\ IF Len(buf) < 4
              THEN /\ err' = "ReadError"
                   /\ pc' = "raised"
                   /\ UNCHANGED image_header
              ELSE /\ image_header' =
                        [image_header EXCEPT
                            !.reserved_b = Bits(buf, 0, 4),
                            !.hard_tiling = Bool(buf, 4),
                            !.reserved_c = Bits(buf, 5, 3),
                            !.tiling = Bool(buf, 8),
                            !.frequency_mode_layout = Bool(buf, 9),
                            !.spatial_transform = Bits(buf, 10, 3),
                            !.index_table_present = Bool(buf, 13),
                            !.overlap_mode = OverlapMode(Bits(buf, 14, 2)),
                            !.short_header = Bool(buf, 16),
                            !.long_word = Bool(buf, 17),
                            !.windowing = Bool(buf, 18),
                            !.trim_flexbits = Bool(buf, 19),
                            !.reserved_d = Bits(buf, 20, 1),
                            !.red_blue_not_swapped = Bool(buf, 21),
                            !.premultiplied_alpha = Bool(buf, 22),
                            !.alpha_image_plane = Bool(buf, 23),
                            !.output_colour_format = ColourFormat(Bits(buf, 24, 4)),
                            !.output_bitdepth = Bitdepth(Bits(buf, 28, 4))]
                   /\ pc' = "cs_dims"
                   /\ UNCHANGED err
    /\ UNCHANGED <<stream, i, marks>>
    /\ UNCHANGED jxrVars

\* width and height: two 2-byte fields if short_header, else two 4-byte
\* fields, each plus one
CSReadDimensions ==
    /\ pc = "cs_dims"
    /\ LET n == DimensionSize(image_header.short_header)
           w == StreamRead(stream, pos, n)
           h == StreamRead(stream, pos + Len(w), n)
           p == pos + Len(w) + Len(h)
       IN  /\ image_header' = [image_header EXCEPT
                                  !.width = PlusOne(from_bytes_wide(w)),
                                  !.height = PlusOne(from_bytes_wide(h))]
           /\ pos' = p
           /\ marks' = [marks EXCEPT !.afterDims = p]
           /\ short' = (short \/ Len(w) < n \/ Len(h) < n)
           /\ highWater' = Max(highWater, ReadEnd(stream, pos, 2 * n))
    /\ pc' = "cs_tile_counts"
    /\ UNCHANGED <<stream, err, i>>
    /\ UNCHANGED jxrVars

\* where read_image_header goes on after `done` widths (or heights) are read
AfterWidths(h, done) ==
    IF done < h.vertical_tile_count THEN "cs_tile_widths"
    ELSE IF h.horizontal_tile_count > 0 THEN "cs_tile_heights" ELSE "cs_margins"

AfterHeights(h, done) ==
    IF done < h.horizontal_tile_count THEN "cs_tile_heights" ELSE "cs_margins"

\* `if tiling:` the two tile counts, each read_uint12 plus one; else both 0
CSReadTileCounts ==
    /\ pc = "cs_tile_counts"
    /\ LET v == read_uint12(stream, pos)
           h == read_uint12(stream, v.pos)
           new == IF image_header.tiling
                  THEN [image_header EXCEPT !.vertical_tile_count = TileCount(v.val),
                                            !.horizontal_tile_count = TileCount(h.val)]
                  ELSE image_header
           p == IF image_header.tiling THEN h.pos ELSE pos
       IN  /\ image_header' = new
           /\ pos' = p
           /\ marks' = [marks EXCEPT !.afterCounts = p,
                                     !.afterTiles = IF AfterWidths(new, 0) = "cs_margins"
                                                    THEN p ELSE @]
           /\ short' = (short \/ (image_header.tiling /\ (v.short \/ h.short)))
           /\ highWater' = IF image_header.tiling
                           THEN Max(highWater, ReadEnd(stream, pos, 6)) ELSE highWater
           /\ pc' = AfterWidths(new, 0)
    /\ i' = 0
    /\ UNCHANGED <<stream, err>>
    /\ UNCHANGED jxrVars

\* one turn of `for _ in range(vertical_tile_count)`
CSReadTileWidth ==
    /\ pc = "cs_tile_widths"
    /\ i < image_header.vertical_tile_count
    /\ LET r == read_uint(stream, pos, TileEntrySize(image_header.short_header))
           nxt == AfterWidths(image_header, i + 1)
       IN  /\ image_header' = [image_header EXCEPT !.tile_widths = Append(@, r.val)]
           /\ pos' = r.pos
           /\ short' = (short \/ r.short)
           /\ highWater' = Max(highWater,
                  ReadEnd(stream, pos, TileEntrySize(image_header.short_header)))
           /\ pc' = nxt
           /\ i' = IF nxt = "cs_tile_widths" THEN i + 1 ELSE 0
           /\ marks' = [marks EXCEPT !.afterTiles = IF nxt = "cs_margins" THEN r.pos ELSE @]
    /\ UNCHANGED <<stream, err>>
    /\ UNCHANGED jxrVars

\* one turn of `for _ in range(horizontal_tile_count)`
CSReadTileHeight ==
    /\ pc = "cs_tile_heights"
    /\ i < image_header.horizontal_tile_count
    /\ LET r == read_uint(stream, pos, TileEntrySize(image_header.short_header))
           nxt == AfterHeights(image_header, i + 1)
       IN  /\ image_header' = [image_header EXCEPT !.tile_heights = Append(@, r.val)]
           /\ pos' = r.pos
           /\ short' = (short \/ r.short)
           /\ highWater' = Max(highWater,
                  ReadEnd(stream, pos, TileEntrySize(image_header.short_header)))
           /\ pc' = nxt
           /\ i' = IF nxt = "cs_tile_heights" THEN i + 1 ELSE 0
           /\ marks' = [marks EXCEPT !.afterTiles = IF nxt = "cs_margins" THEN r.pos ELSE @]
    /\ UNCHANGED <<stream, err>>
    /\ UNCHANGED jxrVars

\* `if windowing:` four 6-bit margins from a 3-byte block; then the return
CSReadMargins ==
    /\ pc = "cs_margins"
    /\ LET buf == StreamRead(stream, pos, 3)
       IN  IF ~image_header.windowing
           THEN /\ pc' = "returned"
                /\ UNCHANGED <<pos, short, highWater, err, image_header>>
           ELSE /\ pos' = pos + Len(buf)
                /\ short' = (short \/ Len(buf) < 3)
                /\ highWater' = Max(highWater, ReadEnd(stream, pos, 3))
                /\ IF Len(buf) < 3
                   THEN /\ err' = "ReadError"
                        /\ pc' = "raised"
                        /\ UNCHANGED image_header
                   ELSE /\ image_header' = [image_header EXCEPT
                                               !.top_margin = Bits(buf, 0, 6),
                                               !.left_margin = Bits(buf, 6, 6),
                                               !.bottom_margin = Bits(buf, 12, 6),
                                               !.right_margin = Bits(buf, 18, 6)]
                        /\ pc' = "returned"
                        /\ UNCHANGED err
    /\ UNCHANGED <<stream, i, marks>>
    /\ UNCHANGED jxrVars

NextCS ==
    \/ CSReadSignature
    \/ CSReadFlags
    \/ CSReadDimensions
    \/ CSReadTileCounts
    \/ CSReadTileWidth
    \/ CSReadTileHeight
    \/ CSReadMargins

SpecCS == InitCS /\ [][NextCS]_vars

(***************************************************************************)
(* Properties of read(stream)                                              *)
(***************************************************************************)
Returned == pc = "returned"
Raised == pc = "raised"

\* the entries of a returned directory whose payload was fetched by offset
IndirectEntries(ifd) ==
    {t \in DOMAIN ifd.entries :
        get_data_size(ifd.entries[t].element_type) * ifd.entries[t].element_count > 4}

RECURSIVE SumIndirect(_)
SumIndirect(ds) ==
    IF ds = <<>> THEN 0 ELSE Cardinality(IndirectEntries(Head(ds))) + SumIndirect(Tail(ds))

\* C1: when read(stream) returns, the directories are listed in the order
\* they were read: the first starts at header.ifd_offset, each later one at
\* the byte right after the previous directory's 4-byte next-offset field,
\* read() seeks only to ifd_offset (every other seek is an entry's
\* seek-away-and-back), every directory but the last has next_ifd_offset # 0
\* and the last has next_ifd_offset = 0.
C1_LinkOrder ==
    Returned =>
        /\ err = "none"
        /\ Len(ifds) >= 1
        /\ Len(dirSpans) = Len(ifds)
        /\ dirSpans[1].start = header.ifd_offset
        /\ seeks[1] = header.ifd_offset
        /\ Len(seeks) = 1 + 2 * SumIndirect(ifds)
        /\ \A k \in 1 .. Len(ifds) :
              /\ ifds[k].entry_count = from_bytes(StreamRead(stream, dirSpans[k].start, 2))
              /\ ifds[k].next_ifd_offset = from_bytes(StreamRead(stream, dirSpans[k].nfield, 4))
        /\ \A k \in 1 .. Len(ifds) - 1 :
              /\ ifds[k].next_ifd_offset # 0
              /\ dirSpans[k + 1].start = dirSpans[k].nfield + 4
        /\ ifds[Len(ifds)].next_ifd_offset = 0

\* a container whose third directory is the first with next_ifd_offset = 0
\* was read: exactly 3 directories
C1_Witness ==
    /\ Returned
    /\ Len(ifds) = 3
    /\ ifds[1].next_ifd_offset # 0 /\ ifds[2].next_ifd_offset # 0
    /\ ifds[3].next_ifd_offset = 0

\* the field after element_count of the last entry read, as an offset
FieldAsOffset == from_bytes(StreamRead(stream, lastEntry.start + 8, 4))

\* C2 (as claimed): an entry with element_type_size * element_count > 4 has
\* as payload exactly that many bytes, read from the offset held in the 4
\* bytes after element_count, and the cursor after the call is 12 bytes past
\* the entry's start, right after the offset field.
C2_IndirectPayload ==
    (lastEntry.start >= 0 /\ lastEntry.size > 4) =>
        /\ Len(lastEntry.entry.data) = lastEntry.size
        /\ lastEntry.entry.data = StreamRead(stream, FieldAsOffset, lastEntry.size)
        /\ lastEntry.pos = lastEntry.start + 12
        /\ lastEntry.pos = lastEntry.field + 4
        /\ lastEntry.seeks = <<FieldAsOffset, lastEntry.field + 4>>

\* C2 holds of every entry read without a short read
C2_WhenNothingShort ==
    (lastEntry.start >= 0 /\ ~lastEntry.short) => C2_IndirectPayload

\* C3 (as claimed): an entry with element_type_size * element_count <= 4 has
\* as payload exactly the 4 bytes after element_count, and no seek is made.
C3_InlinePayload ==
    (lastEntry.start >= 0 /\ lastEntry.size <= 4) =>
        /\ Len(lastEntry.entry.data) = 4
        /\ lastEntry.entry.data = StreamRead(stream, lastEntry.start + 8, 4)
        /\ lastEntry.seeks = <<>>
        /\ lastEntry.pos = lastEntry.start + 12

\* C3 holds of every entry read without a short read
C3_WhenNothingShort ==
    (lastEntry.start >= 0 /\ ~lastEntry.short) => C3_InlinePayload

\* the cursor right after the entries of the directory being read
AfterEntries ==
    IF i = 0 THEN dirStart + Len(StreamRead(stream, dirStart, 2)) ELSE lastEntry.pos

\* C4: a directory is returned only when the tags of its entries are
\* pairwise distinct and include the five required tags; an entry with an
\* already-seen tag raises the duplicate-entry error; a directory without
\* duplicates that lacks a required tag raises the missing-required-entry
\* error with the cursor still before the next-directory offset.
C4_DirectoryValidated ==
    /\ \A k \in 1 .. Len(ifds) :
          /\ Cardinality(DOMAIN ifds[k].entries) = ifds[k].entry_count
          /\ {PIXEL_FORMAT, IMAGE_WIDTH, IMAGE_HEIGHT, IMAGE_OFFSET, IMAGE_BYTE_COUNT}
                 \subseteq DOMAIN ifds[k].entries
    /\ pc = "dir_entries" => Cardinality(DOMAIN entries) = i
    /\ err = "JXRDuplicateIFDEntryError" =>
          /\ lastEntry.entry.tag \in DOMAIN entries
          /\ i < entry_count
    /\ err = "JXRMissingRequiredIFDEntryError" =>
          /\ i = entry_count
          /\ Cardinality(DOMAIN entries) = entry_count
          /\ \E t \in {PIXEL_FORMAT, IMAGE_WIDTH, IMAGE_HEIGHT, IMAGE_OFFSET,
                       IMAGE_BYTE_COUNT} : t \notin DOMAIN entries
          /\ pos = AfterEntries

\* a directory of four distinct entries without IMAGE_WIDTH was refused
C4_Witness ==
    /\ err = "JXRMissingRequiredIFDEntryError"
    /\ entry_count = 4
    /\ IMAGE_WIDTH \notin DOMAIN entries
    /\ pos < Len(stream)

\* the tag codes stored in the directory at cursor p
RawTags(p) ==
    [k \in 1 .. from_bytes(StreamRead(stream, p, 2)) |->
        from_bytes(StreamRead(stream, p + 2 + 12 * (k - 1), 2))]

\* the recognized tag codes of the directory at p are pairwise distinct and
\* include the five required tags
RecognizedTagsValid(p) ==
    LET raw == RawTags(p)
    IN  /\ \A a, b \in DOMAIN raw :
              (a # b /\ raw[a] \in JXRFieldTag) => raw[a] # raw[b]
        /\ \A t \in {PIXEL_FORMAT, IMAGE_WIDTH, IMAGE_HEIGHT, IMAGE_OFFSET,
                     IMAGE_BYTE_COUNT} : \E a \in DOMAIN raw : raw[a] = t

\* C5 (as claimed): a directory whose recognized tags are pairwise distinct
\* and include the five required tags is read without error, whatever
\* number of entries with unrecognized tag codes it holds.
C5_UnrecognizedTagsTolerated ==
    (Raised /\ dirStart >= 0 /\ RecognizedTagsValid(dirStart)) =>
        err \notin {"JXRDuplicateIFDEntryError", "JXRMissingRequiredIFDEntryError"}

\* C6: with a valid signature and a version byte above 1, read(stream) raises
\* the unsupported-version error with no seek issued and no byte past the
\* 8-byte file header read; version bytes 0 and 1 never raise it.
C6_VersionBeforeIfd ==
    (StreamRead(stream, 0, 3) = <<73, 73, 188>> /\ Len(stream) >= 4) =>
        /\ (stream[4] > 1 /\ pc \notin {"read_header", "check_version"}) =>
              /\ err = "JXRReaderFileVersionError"
              /\ Raised
              /\ seeks = <<>>
              /\ highWater <= 8
              /\ pos <= 8
              /\ ifds = <<>> /\ dirStart = -1
        /\ stream[4] <= 1 => err # "JXRReaderFileVersionError"

\* a container of version 2 was refused
C6_Witness ==
    /\ err = "JXRReaderFileVersionError"
    /\ stream[4] = 2
    /\ Len(stream) > 8

\* C7 (as claimed): a read that gets fewer bytes than it asked for is fatal,
\* read(stream) returns no JXRFile after one.
C7_ShortReadFatal == Returned => ~short

\* C10: read(stream) terminates on every stream.  The cursor is never moved
\* back by a directory read (an entry leaves it at or after the entry's
\* start, indirect seeks undone; a directory returned ends after its start),
\* so the directories returned start at strictly increasing positions inside
\* the stream and there are never more of them than bytes; a directory
\* started at or past the end of the stream decodes an entry count of 0 and
\* raises the missing-required-entry error; each for-loop runs entry_count
\* turns; and read() is never left without a step before it returned or
\* raised.
C10_Terminates ==
    /\ lastEntry.start >= 0 => lastEntry.pos >= lastEntry.start
    /\ pc = "dir_entries" => (pos >= dirStart /\ i <= entry_count)
    /\ \A k \in 1 .. Len(dirSpans) :
          /\ dirSpans[k].end > dirSpans[k].start
          /\ dirSpans[k].start < Len(stream)
          /\ k > 1 => dirSpans[k].start > dirSpans[k - 1].start
    /\ Len(ifds) <= Len(stream)
    /\ (dirStart >= Len(stream) /\ pc \in {"dir_entries", "raised", "returned"}) =>
          /\ entry_count = 0
          /\ ~Returned
          /\ Raised => err = "JXRMissingRequiredIFDEntryError"
    /\ pc = "dir_begin" => Len(ifds) < IfdCap
    /\ pc \in {"read_header", "check_version", "dir_begin", "dir_entries",
               "returned", "raised"}

\* read(stream) ends, as a liveness property under FairSpec
C10_Eventually == <>(Returned \/ Raised)

\* the reader ran off the end of the stream looking for the next directory
C10_Witness ==
    /\ Raised
    /\ Len(ifds) >= 1
    /\ dirStart >= Len(stream)
    /\ err = "JXRMissingRequiredIFDEntryError"

(***************************************************************************)
(* Properties of read_image_header(stream)                                 *)
(***************************************************************************)
\* the flags as stored: bit 8 (tiling) and bit 16 (short header) of the
\* 4-byte block at offset 8
StoredTiling == stream[10] >= 128
StoredShortHeader == stream[11] >= 128

\* byte k of a field, 0 where the stream holds none
ByteAt(field, k) == IF k <= Len(field) THEN field[k] ELSE 0

\* v is the little-endian value stored in `field`, plus one, and at least 1
IsStoredPlusOne(v, field) ==
    /\ v.lo \in 0 .. 65535
    /\ v.hi >= 0
    /\ v.hi - (ByteAt(field, 3) + 256 * ByteAt(field, 4)) \in {0, 1}
    /\ 65536 * (v.hi - (ByteAt(field, 3) + 256 * ByteAt(field, 4)))
           + v.lo - (ByteAt(field, 1) + 256 * ByteAt(field, 2)) = 1
    /\ v.hi > 0 \/ v.lo >= 1

\* C8: width and height are the stored little-endian unsigned values plus
\* one, from two 2-byte fields at offset 12 if the short-header flag is set
\* and from two 4-byte fields otherwise, with no wrap-around: stored 0x00FF
\* gives 256, stored 0xFFFF gives 65536, stored 0xFFFFFFFF gives 2^32 (limbs
\* hi = 65536, lo = 0); both are at least 1.
C8_Dimensions ==
    pc \in {"cs_tile_counts", "cs_tile_widths", "cs_tile_heights", "cs_margins",
            "returned"} =>
        LET n == IF StoredShortHeader THEN 2 ELSE 4
            w == StreamRead(stream, 12, n)
            h == StreamRead(stream, 12 + n, n)
        IN  /\ IsStoredPlusOne(image_header.width, w)
            /\ IsStoredPlusOne(image_header.height, h)
            /\ marks.afterDims = Min(12 + 2 * n, Len(stream))
            /\ w = <<255, 0>> => image_header.width = [hi |-> 0, lo |-> 256]
            /\ w = <<255, 255>> => image_header.width = [hi |-> 1, lo |-> 0]
            /\ w = <<255, 255, 255, 255>> => image_header.width = [hi |-> 65536, lo |-> 0]
            /\ h = <<255, 255, 255, 255>> => image_header.height = [hi |-> 65536, lo |-> 0]

\* a short header storing width 0x00FF was decoded: width 256
C8_Witness ==
    /\ pc = "returned"
    /\ image_header.short_header
    /\ StreamRead(stream, 12, 2) = <<255, 0>>
    /\ image_header.width = [hi |-> 0, lo |-> 256]

\* C9: in every header returned the tile arrays are as long as the tile
\* counts; with the tiling flag unset both counts are 0, both arrays empty
\* and no byte is consumed between the dimensions and the margins; with it
\* set both counts are at least 1.
C9_TileArrays ==
    pc = "returned" =>
        /\ Len(image_header.tile_widths) = image_header.vertical_tile_count
        /\ Len(image_header.tile_heights) = image_header.horizontal_tile_count
        /\ image_header.tiling = StoredTiling
        /\ ~StoredTiling =>
              /\ image_header.vertical_tile_count = 0
              /\ image_header.horizontal_tile_count = 0
              /\ image_header.tile_widths = <<>>
              /\ image_header.tile_heights = <<>>
              /\ marks.afterTiles = marks.afterDims
        /\ StoredTiling =>
              /\ image_header.vertical_tile_count >= 1
              /\ image_header.horizontal_tile_count >= 1

\* a tiled header with 3 tile widths and 2 tile heights was decoded
C9_Witness ==
    /\ pc = "returned"
    /\ image_header.tiling
    /\ image_header.vertical_tile_count = 3
    /\ image_header.horizontal_tile_count = 2
    /\ Len(image_header.tile_widths) = 3

====
